---- MODULE Spec2Model ----
(***************************************************************************)
(* Model of MicahParks/httphandle: middleware composition (Wrap,           *)
(* ApplyGlobal), route registration (Attach), the request-scoped context   *)
(* store, the transaction attacher, and the API / template adapters.       *)
(* One request at a time travels down a chain of handler layers and        *)
(* unwinds back up, either by normal return or by a panic.                 *)
(***************************************************************************)
EXTENDS Integers, Sequences, FiniteSets, TLC

\* ------------------------------------------------------------------ bounds
MaxMw == 3          \* longest middleware list handed directly to Wrap
MaxDeclared == 2    \* longest list a handler's ApplyMiddleware wraps with
MaxCookies == 1     \* most cookies a template Respond returns

\* ------------------------------------------------- constants of the program
Logger == 0         \* ctxkey.Logger
ReqUUID == 1        \* ctxkey.ReqUUID
Tx == 2             \* ctxkey.Tx

StatusOK == 200
StatusMovedPermanently == 301
StatusFound == 302
StatusSeeOther == 303
StatusNotModified == 304
StatusTemporaryRedirect == 307
StatusPermanentRedirect == 308
StatusBadRequest == 400
StatusUnauthorized == 401
StatusNotFound == 404
StatusMethodNotAllowed == 405
StatusUnsupportedMediaType == 415
StatusUnprocessableEntity == 422
StatusInternalServerError == 500

DefaultTimeout == 10000            \* milliseconds
DefaultMaxReqSize == 10485760      \* bytes
CacheDefaultMaxAge == 1800000      \* milliseconds (30 * time.Minute)

PathIndex == "/"
ContentTypeJSON == "application/json"
ContentEncodingGzip == "gzip"
TemplateHeaderAddExtension == ".header"
MsgFailTransactionBegin == "Failed to begin transaction."
MsgFailTransactionRollback == "Failed to rollback transaction."
RespInternalServerError == "Internal server error."

\* --------------------------------------------------------------- universes
Probes == {"Probe_a", "Probe_b", "Probe_c"}   \* opaque pass-through middleware
UUIDs == {"u1"}
NilUUID == "00000000"                          \* uuid.Nil, when the RNG fails
Methods == {"GET", "POST"}
ContentTypes == {ContentTypeJSON, "text/plain"}

\* all sequences over S of length at most n
RECURSIVE SeqsUpTo(_, _)
SeqsUpTo(S, n) ==
    IF n = 0 THEN {<<>>}
    ELSE LET shorter == SeqsUpTo(S, n - 1)
         IN  shorter \cup {Append(s, x) : s \in {t \in shorter : Len(t) = n - 1}, x \in S}

Count(s, x) == Cardinality({i \in DOMAIN s : s[i] = x})

\* position of the first occurrence of x in s, 0 when absent
IndexOf(s, x) ==
    IF \E i \in DOMAIN s : s[i] = x
    THEN CHOOSE i \in DOMAIN s : s[i] = x /\ \A j \in 1..(i - 1) : s[j] # x
    ELSE 0

\* ------------------------------------------------------- context (ctxkey)
EmptyCtx == [k \in {} |-> 0]
Has(ctx, k) == k \in DOMAIN ctx
WithValue(ctx, k, v) == [x \in (DOMAIN ctx) \cup {k} |-> IF x = k THEN v ELSE ctx[x]]

\* ------------------------------------------------------------ middleware
\* A handler is the sequence of its layers, outermost first, base last.
\* A middleware m applied to a handler puts its layer in front.
ApplyMw(m, handler) == <<m>> \o handler

RECURSIVE WrapFirstOutermost(_, _)
\* Wrap had it folded from the last middleware to the first
WrapFirstOutermost(handler, middleware) ==
    IF middleware = <<>> THEN handler
    ELSE ApplyMw(Head(middleware), WrapFirstOutermost(handler, Tail(middleware)))

RECURSIVE WrapFrom(_, _, _)
WrapFrom(handler, middleware, i) ==
    IF i > Len(middleware) THEN handler
    ELSE WrapFrom(ApplyMw(middleware[i], handler), middleware, i + 1)

Wrap(handler, middleware) == WrapFrom(handler, middleware, 1)

\* ApplyGlobal had it listed the size limiter before the timeout wrapper
GlobalMiddlewareLimitFirst == <<"AddLogger", "RequestUUID", "LimitReqSize", "AddCtx">>

\* ApplyGlobal had it listed the correlation-id injector before the logger
GlobalMiddlewareUUIDFirst == <<"RequestUUID", "AddLogger", "AddCtx", "LimitReqSize">>

\* ApplyGlobal had it listed the correlation-id injector twice
GlobalMiddlewareUUIDTwice == <<"AddLogger", "RequestUUID", "RequestUUID", "AddCtx", "LimitReqSize">>

GlobalMiddleware == <<"AddLogger", "RequestUUID", "AddCtx", "LimitReqSize">>

ApplyGlobal(h) == Wrap(h, GlobalMiddleware)

\* The application's ApplyMiddleware: wraps with the handler's declared list.
ApplyMiddleware(declared, h) == Wrap(h, declared)

\* ---------------------------------------------------------------- routes
PatternAPI == "/api"
PatternPage == "/page"
PatternGeneral == "/general"
Patterns == {PatternAPI, PatternPage, PathIndex, PatternGeneral}
StaticPaths == {"/app.js", "/missing"}      \* "/missing" is not in Files

\* Middleware an application may declare on a handler.
Declarable == {"AddTx", "Probe_a"}
DeclaredLists == {d \in SeqsUpTo(Declarable, MaxDeclared) : Count(d, "AddTx") <= 1}

\* CacheControlStatic(EncodeGzip(http.FileServer(Files)))
FileServerChain == ApplyMw("CacheControl", ApplyMw("EncodeGzip", <<"FileServer">>))

\* createIndexTemplateHandler had it served the files with http.FileServer alone
createIndexTemplateHandlerBareFiles(declared) ==
    [ fileServer |-> <<"FileServer">>,
      h          |-> ApplyMiddleware(declared, <<"TemplateHandler">>) ]

\* createIndexTemplateHandler: the closure captures fileServer and h.
createIndexTemplateHandler(declared) ==
    [ fileServer |-> FileServerChain,
      h          |-> ApplyMiddleware(declared, <<"TemplateHandler">>) ]

\* Attach had it applied the global bundle before the handler's middleware
AttachAPIGlobalInside(declared) == ApplyMiddleware(declared, ApplyGlobal(<<"APIHandler">>))

\* The handler Attach registers for each kind.
AttachAPI(declared) == ApplyGlobal(ApplyMiddleware(declared, <<"APIHandler">>))

AttachTemplate(declared, pattern) ==
    IF pattern = PathIndex
    THEN ApplyGlobal(<<"IndexHandler">>)
    ELSE \* h = ApplyMiddleware(nil) is overwritten by createTemplateHandler
         ApplyGlobal(<<"TemplateHandler">>)

AttachGeneral(declared) == ApplyGlobal(ApplyMiddleware(declared, <<"GeneralHandler">>))

\* ---------------------------------------------------------------- state
VARIABLES
    phase,      \* "start", "serving", "attachFailed": the process
    mux,        \* pattern -> registered handler (sequence of layers)
    declared,   \* the middleware list the handlers' ApplyMiddleware wraps with
    opts,       \* AttachArgs.MiddlewareOpts, as handed to ApplyGlobal
    mode,       \* "idle", "down", "up", "panic", "done": the request
    wrapList,   \* the middleware list of a handler built directly with Wrap
    route,      \* which kind of handler the request was dispatched to
    req,        \* the request: method, content type, path, accept-encoding
    rest,       \* layers still to be entered, next first
    frames,     \* entered middleware that wait for next.ServeHTTP to return
    ctx,        \* the context of the request handed to the next layer
    resp,       \* the response writer
    trace,      \* what ran, in order
    log,        \* records written to the logger
    tx,         \* the transaction begun for this request
    cancel,     \* the context derived by the timeout wrapper
    gz,         \* the gzip writer of the response compressor
    calls,      \* how often the handler's and the application's hooks ran
    outcome,    \* "none", "returned", "fault": how the request ended
    input,      \* what the handler's own code (Authorize, Respond) did
    file,       \* the static file opened by the index handler
    cache,      \* a Cache-Control middleware under construction
    srv,        \* Serve and its shutdown goroutine
    ext         \* one call of a JSON-body extractor: its inputs and what it returned

vars == <<phase, mux, declared, opts, mode, wrapList, route, req, rest, frames, ctx, resp,
          trace, log, tx, cancel, gz, calls, outcome, input, file, cache, srv, ext>>

procVars == <<phase, mux, declared, opts, cache, srv, ext>>

NoReq == [method |-> "", contentType |-> "", path |-> "", acceptGzip |-> FALSE, bodyLimit |-> -1]

\* GlobalOptions: its zero value and middleware.GlobalDefaults
ZeroOptions == [MaxReqSize |-> 0, ReqTimeout |-> 0]
GlobalDefaults == [MaxReqSize |-> DefaultMaxReqSize, ReqTimeout |-> DefaultTimeout]

NoCacheControl == [maxAge |-> -1, directives |-> <<>>]

NewResp ==
    [ wroteHeader |-> FALSE, status |-> 0,
      contentType |-> "", cacheControl |-> NoCacheControl, contentEncoding |-> "",
      location |-> "", cookies |-> <<>>, body |-> <<>> ]

NewTx == [state |-> "none", rollbacks |-> 0, commits |-> 0]

NewCalls ==
    [ authorize |-> 0, respond |-> 0, templates |-> <<>>, errorTemplate |-> <<>>,
      notFound |-> 0, redirect |-> 0 ]

NoCache == [state |-> "none", opts |-> [MaxAge |-> 0, NoCache |-> FALSE, NoStore |-> FALSE, Public |-> FALSE],
            value |-> NoCacheControl]

NoServe ==
    [ main |-> "none", shut |-> "none", signalled |-> FALSE, hookCalls |-> 0, hookReturns |-> 0,
      hookErr |-> FALSE, ctx |-> "none", overran |-> FALSE, shutdownCalls |-> 0, active |-> 0,
      chanClosed |-> FALSE, timer |-> "off", ctxFirst |-> FALSE, log |-> <<>> ]

\* the request-handling state before anything is attached
HandlingInit ==
    /\ phase = "start"
    /\ mux = [p \in {} |-> <<>>]
    /\ declared = <<>>
    /\ opts = ZeroOptions
    /\ mode = "idle"
    /\ wrapList = <<>>
    /\ route = "none"
    /\ req = NoReq
    /\ rest = <<>>
    /\ frames = <<>>
    /\ ctx = EmptyCtx
    /\ resp = NewResp
    /\ trace = <<>>
    /\ log = <<>>
    /\ tx = NewTx
    /\ cancel = [state |-> "none", timeout |-> 0]
    /\ gz = [state |-> "none", closes |-> 0]
    /\ calls = NewCalls
    /\ outcome = "none"
    /\ input = [kind |-> "none"]
    /\ file = "none"

\* no extractor call is under way
NoExtract == [state |-> "none"]

Init == HandlingInit /\ cache = NoCache /\ srv = NoServe /\ ext = NoExtract

reqVars == <<mode, wrapList, route, req, rest, frames, ctx, resp, trace, log, tx, cancel, gz, calls, outcome, input, file>>

\* ---------------------------------------------------------------- Attach
\* Registers the API handler, the two template handlers (root and page) and
\* the general handler, in that order; the first Initialize error aborts.
AttachOrder == <<PatternAPI, PathIndex, PatternPage, PatternGeneral>>

Registered(d, pattern) ==
    CASE pattern = PatternAPI     -> AttachAPI(d)
      [] pattern = PatternGeneral -> AttachGeneral(d)
      [] OTHER                    -> AttachTemplate(d, pattern)

Attach ==
    /\ phase = "start"
    /\ \E d \in DeclaredLists, failAt \in 0..Len(AttachOrder), o \in {ZeroOptions, GlobalDefaults} :
          LET n == IF failAt = 0 THEN Len(AttachOrder) ELSE failAt - 1
              done == {AttachOrder[i] : i \in 1..n}
          IN  /\ declared' = d
              /\ opts' = o
              /\ mux' = [p \in done |-> Registered(d, p)]
              /\ phase' = IF failAt = 0 THEN "serving" ELSE "attachFailed"
    /\ UNCHANGED <<reqVars, cache, srv, ext>>

\* ------------------------------------------------------- response writer
\* http.ResponseWriter: the first WriteHeader fixes the status, a Write
\* without one implies 200, headers set after that are not sent.
WriteHeader(w, code) ==
    IF w.wroteHeader THEN w ELSE [w EXCEPT !.wroteHeader = TRUE, !.status = code]

Write(w, data) ==
    LET w1 == WriteHeader(w, StatusOK) IN [w1 EXCEPT !.body = Append(@, data)]

SetContentType(w, v) == IF w.wroteHeader THEN w ELSE [w EXCEPT !.contentType = v]

SetCookie(w, c) == IF w.wroteHeader THEN w ELSE [w EXCEPT !.cookies = Append(@, c)]

\* http.Redirect: Location header, then the status line.
Redirect(w, url, code) ==
    WriteHeader(IF w.wroteHeader THEN w ELSE [w EXCEPT !.location = url], code)

\* ------------------------------------------------------------ dispatching
PatternOf(path) == IF path \in Patterns THEN path ELSE PathIndex

RouteOf(pattern) ==
    CASE pattern = PatternAPI     -> "api"
      [] pattern = PatternPage    -> "template"
      [] pattern = PatternGeneral -> "general"
      [] OTHER                    -> "index"

Start(r, kind, chain, list) ==
    /\ mode' = "down"
    /\ wrapList' = list
    /\ route' = kind
    /\ req' = r
    /\ rest' = chain
    /\ UNCHANGED <<frames, ctx, resp, trace, log, tx, cancel, gz, calls, outcome, input, file>>

\* the requests of the model: any method and content type on the API
\* pattern, with and without gzip on the static paths, a plain GET elsewhere
Requests ==
    [ method : Methods, contentType : ContentTypes, path : {PatternAPI},
      acceptGzip : {FALSE}, bodyLimit : {-1} ]
    \cup [ method : {"GET"}, contentType : {""}, path : StaticPaths,
           acceptGzip : BOOLEAN, bodyLimit : {-1} ]
    \cup [ method : {"GET"}, contentType : {""}, path : Patterns \ {PatternAPI},
           acceptGzip : {FALSE}, bodyLimit : {-1} ]

\* http.ServeMux hands a request to the handler registered for its pattern.
Request ==
    /\ phase = "serving"
    /\ mode = "idle"
    /\ \E r \in Requests :
          Start(r, RouteOf(PatternOf(r.path)), mux[PatternOf(r.path)], <<>>)
    /\ UNCHANGED procVars

\* the lists handed directly to Wrap: opaque middleware and, at most once,
\* the response compressor
WrapLists == {l \in SeqsUpTo(Probes \cup {"EncodeGzip"}, MaxMw) : Count(l, "EncodeGzip") <= 1}

\* A request served by a handler built directly with Wrap(handler, m1..mn).
ServeWrapped ==
    /\ phase = "serving"
    /\ mode = "idle"
    /\ \E list \in WrapLists, g \in BOOLEAN :
          /\ (g => Count(list, "EncodeGzip") = 1)
          /\ Start([NoReq EXCEPT !.method = "GET", !.path = PathIndex, !.acceptGzip = g],
                   "wrap", Wrap(<<"Base">>, list), list)
    /\ UNCHANGED procVars

Entering(layer) == mode = "down" /\ rest # <<>> /\ Head(rest) = layer

Top == frames[Len(frames)]
Returning(layer) == mode = "up" /\ frames # <<>> /\ Top.layer = layer

Pop == SubSeq(frames, 1, Len(frames) - 1)

\* the layer calls next.ServeHTTP(w, r) with context c
CallNext(layer, c) ==
    /\ frames' = Append(frames, [layer |-> layer, ctx |-> c])
    /\ rest' = Tail(rest)
    /\ ctx' = c
    /\ trace' = Append(trace, <<"pre", layer>>)
    /\ mode' = "down"

\* the layer's ServeHTTP returns to its caller
ReturnFrom(layer) ==
    /\ frames' = Pop
    /\ trace' = Append(trace, <<"post", layer>>)
    /\ mode' = "up"

\* a failed type assertion ctx.Value(key).(T) panics in the layer
PanicIn(layer, what) ==
    /\ trace' = Append(trace, <<what, layer>>)
    /\ mode' = "panic"

\* ------------------------------------------------------ global middleware
LimitReqSizeServe ==
    /\ Entering("LimitReqSize")
    /\ req' = [req EXCEPT !.bodyLimit = opts.MaxReqSize]
    /\ CallNext("LimitReqSize", ctx)
    /\ UNCHANGED <<procVars, wrapList, route, resp, log, tx, cancel, gz, calls, outcome, input, file>>

AddCtxServe ==
    /\ Entering("AddCtx")
    /\ cancel' = [state |-> "active", timeout |-> opts.ReqTimeout]
    /\ CallNext("AddCtx", ctx)
    /\ UNCHANGED <<procVars, wrapList, route, req, resp, log, tx, gz, calls, outcome, input, file>>

AddCtxReturn ==
    /\ Returning("AddCtx")
    /\ cancel' = [cancel EXCEPT !.state = "released"]
    /\ ReturnFrom("AddCtx")
    /\ UNCHANGED <<procVars, wrapList, route, req, rest, ctx, resp, log, tx, gz, calls, outcome, input, file>>

RequestUUIDServe ==
    /\ Entering("RequestUUID")
    /\ \E u \in UUIDs \cup {NilUUID} : CallNext("RequestUUID", WithValue(ctx, ReqUUID, u))
    /\ UNCHANGED <<procVars, wrapList, route, req, resp, log, tx, cancel, gz, calls, outcome, input, file>>

AddLoggerServe ==
    /\ Entering("AddLogger")
    /\ IF Has(ctx, ReqUUID)
       THEN CallNext("AddLogger",
                     WithValue(ctx, Logger,
                               [method |-> req.method, reqUUID |-> ctx[ReqUUID], url |-> req.path]))
       ELSE /\ PanicIn("AddLogger", "absent ReqUUID")
            /\ UNCHANGED <<frames, rest, ctx>>
    /\ UNCHANGED <<procVars, wrapList, route, req, resp, log, tx, cancel, gz, calls, outcome, input, file>>

\* middleware without code after next.ServeHTTP
PlainLayers == {"LimitReqSize", "RequestUUID", "AddLogger", "CacheControl"}

PlainReturn ==
    /\ mode = "up" /\ frames # <<>> /\ Top.layer \in PlainLayers
    /\ ReturnFrom(Top.layer)
    /\ UNCHANGED <<procVars, wrapList, route, req, rest, ctx, resp, log, tx, cancel, gz, calls, outcome, input, file>>

\* an opaque middleware: code before and after next.ServeHTTP
ProbeServe ==
    /\ mode = "down" /\ rest # <<>> /\ Head(rest) \in Probes
    /\ CallNext(Head(rest), ctx)
    /\ UNCHANGED <<procVars, wrapList, route, req, resp, log, tx, cancel, gz, calls, outcome, input, file>>

ProbeReturn ==
    /\ mode = "up" /\ frames # <<>> /\ Top.layer \in Probes
    /\ ReturnFrom(Top.layer)
    /\ UNCHANGED <<procVars, wrapList, route, req, rest, ctx, resp, log, tx, cancel, gz, calls, outcome, input, file>>

\* ------------------------------------------------------------ JSON bodies
\* httphandle.NewAPIError as encoding/json writes it (field names are the tags)
NewAPIError(c, code, message) ==
    [ data |-> [code |-> code, message |-> message],
      metadata |-> [requestMetadata |-> c[ReqUUID]] ]

\* api.NewAPIError as encoding/json writes it
apiNewAPIError(c, code, message) ==
    [ data |-> [code |-> code, message |-> message],
      metadata |-> [requestUUID |-> c[ReqUUID]] ]

\* st is the part of the state a handler works on:
\* [resp, log, calls, tx, panic]; panic names the fault, "" when none.
Fault(st, what) == [st EXCEPT !.panic = what]

LogTo(st, level, msg, code) ==
    [st EXCEPT !.log = Append(@, [level |-> level, msg |-> msg, respCode |-> code])]

\* middleware.WriteErrorBody; json.Marshal cannot fail on these field types
WriteErrorBody(st, c, code, message) ==
    IF ~Has(c, ReqUUID) THEN Fault(st, "absent ReqUUID")
    ELSE [st EXCEPT !.resp = Write(WriteHeader(SetContentType(@, ContentTypeJSON), code),
                                   NewAPIError(c, code, message))]

\* ------------------------------------------------------------- pgx.Tx
TxClosedStates == {"committed", "rolledBack", "commitFailed", "rollbackFailed"}
TxClosed(t) == t.state \in TxClosedStates

\* tx.Commit: "closed" stands for pgx.ErrTxClosed
TxCommit(t, ok) ==
    IF TxClosed(t) THEN [tx |-> [t EXCEPT !.commits = @ + 1], err |-> "closed"]
    ELSE IF ok THEN [tx |-> [t EXCEPT !.state = "committed", !.commits = @ + 1], err |-> ""]
    ELSE [tx |-> [t EXCEPT !.state = "commitFailed", !.commits = @ + 1], err |-> "failed"]

\* tx.Rollback
TxRollback(t, ok) ==
    IF TxClosed(t) THEN [tx |-> [t EXCEPT !.rollbacks = @ + 1], err |-> "closed"]
    ELSE IF ok THEN [tx |-> [t EXCEPT !.state = "rolledBack", !.rollbacks = @ + 1], err |-> ""]
    ELSE [tx |-> [t EXCEPT !.state = "rollbackFailed", !.rollbacks = @ + 1], err |-> "failed"]

\* ------------------------------------------------- transaction attacher
St == [resp |-> resp, log |-> log, calls |-> calls, tx |-> tx, panic |-> ""]

SetSt(st) ==
    /\ resp' = st.resp
    /\ log' = st.log
    /\ calls' = st.calls
    /\ tx' = st.tx

\* CreateAddTx had it returned on a begin failure without a response
AddTxBeginFailedSilently(st, c) ==
    LogTo([st EXCEPT !.tx.state = "beginFailed"], "ERROR", MsgFailTransactionBegin, 0)

\* CreateAddTx up to and including the begin-failure return
AddTxBeginFailed(st, c) ==
    WriteErrorBody(LogTo([st EXCEPT !.tx.state = "beginFailed"], "ERROR", MsgFailTransactionBegin, 0),
                   c, StatusInternalServerError, RespInternalServerError)

AddTxServe ==
    /\ Entering("AddTx")
    /\ IF ~Has(ctx, Logger)
       THEN /\ PanicIn("AddTx", "absent Logger")
            /\ UNCHANGED <<frames, rest, ctx, resp, log, calls, tx>>
       ELSE \E beginOK \in BOOLEAN :
              IF beginOK
              THEN /\ tx' = [tx EXCEPT !.state = "open"]
                   /\ CallNext("AddTx", WithValue(ctx, Tx, "tx"))
                   /\ UNCHANGED <<resp, log, calls>>
              ELSE LET st == AddTxBeginFailed(St, ctx)
                   IN  /\ SetSt(st)
                       /\ IF st.panic # ""
                          THEN PanicIn("AddTx", st.panic)
                          ELSE /\ trace' = Append(trace, <<"short", "AddTx">>)
                               /\ mode' = "up"
                       /\ UNCHANGED <<frames, rest, ctx>>
    /\ UNCHANGED <<procVars, wrapList, route, req, cancel, gz, outcome, input, file>>

\* CreateAddTx had it logged every rollback error, pgx.ErrTxClosed included
AddTxAfterNextLogsClosed(st, ok) ==
    LET r == TxRollback(st.tx, ok)
        st1 == [st EXCEPT !.tx = r.tx]
    IN  IF r.err # "" THEN LogTo(st1, "ERROR", MsgFailTransactionRollback, 0) ELSE st1

\* CreateAddTx after next.ServeHTTP has returned
AddTxAfterNext(st, ok) ==
    LET r == TxRollback(st.tx, ok)
        st1 == [st EXCEPT !.tx = r.tx]
    IN  IF r.err # "" /\ r.err # "closed"
        THEN LogTo(st1, "ERROR", MsgFailTransactionRollback, 0)
        ELSE st1

AddTxReturn ==
    /\ Returning("AddTx")
    /\ \E ok \in BOOLEAN : SetSt(AddTxAfterNext(St, ok))
    /\ ReturnFrom("AddTx")
    /\ UNCHANGED <<procVars, wrapList, route, req, rest, ctx, cancel, gz, outcome, input, file>>

\* ------------------------------------------------------------- API adapter
\* the API handler of the model: POST, JSON in, JSON out
HTTPMethod == "POST"
ReqContentType == ContentTypeJSON
RespContentType == ContentTypeJSON

APICodes == {StatusOK, 201}

\* api.RespondJSON(ctx, code, nil): Data is omitted when empty
RespondJSON(c, code) == [metadata |-> [requestUUID |-> c[ReqUUID]]]

\* api.CommitTx
CommitTx(st, c, responseCode, ok) ==
    IF ~Has(c, Tx) THEN [st |-> Fault(st, "absent Tx"), code |-> 0, body |-> <<>>, err |-> ""]
    ELSE LET r == TxCommit(st.tx, ok)
             st1 == [st EXCEPT !.tx = r.tx]
         IN  IF r.err # ""
             THEN IF ~Has(c, Logger)
                  THEN [st |-> Fault(st1, "absent Logger"), code |-> 0, body |-> <<>>, err |-> ""]
                  ELSE IF ~Has(c, ReqUUID)
                  THEN [st |-> Fault(st1, "absent ReqUUID"), code |-> 0, body |-> <<>>, err |-> ""]
                  ELSE [ st |-> LogTo(st1, "ERROR", "Failed to commit transaction.", 0),
                         code |-> StatusInternalServerError,
                         body |-> apiNewAPIError(c, StatusInternalServerError, RespInternalServerError),
                         err |-> "" ]
             ELSE IF ~Has(c, ReqUUID)
                  THEN [st |-> Fault(st1, "absent ReqUUID"), code |-> 0, body |-> <<>>, err |-> ""]
                  ELSE [st |-> st1, code |-> responseCode, body |-> RespondJSON(c, responseCode), err |-> ""]

\* the handler's Respond: application code, one of four behaviours
APIRespond(st, c, in) ==
    CASE in.kind = "ok"     -> [st |-> st, code |-> in.code, body |-> [payload |-> in.code], err |-> ""]
      [] in.kind = "err"    -> [st |-> st, code |-> 0, body |-> <<>>, err |-> "handler error"]
      [] in.kind = "commit" -> CommitTx(st, c, in.code, in.commitOK)
      [] OTHER              -> [st |-> Fault(st, "handler panic"), code |-> 0, body |-> <<>>, err |-> ""]

\* the handler's Authorize: when it refuses it writes its own response
Authorize(st, authorized) ==
    LET st1 == [st EXCEPT !.calls.authorize = @ + 1]
    IN  IF authorized THEN st1
        ELSE [st1 EXCEPT !.resp = Write(WriteHeader(@, StatusUnauthorized), [authorize |-> "refused"])]

\* createAPIHandler had it compared the content type before the method
createAPIHandlerContentTypeFirst(st, c, r, in) ==
    IF r.contentType # ReqContentType
    THEN WriteErrorBody(st, c, StatusUnsupportedMediaType, "Expected application/json.")
    ELSE IF r.method # HTTPMethod
    THEN WriteErrorBody(st, c, StatusMethodNotAllowed, "Expected POST.")
    ELSE LET st1 == Authorize(st, in.authorized)
         IN  IF ~in.authorized THEN st1
             ELSE LET a == APIRespond([st1 EXCEPT !.calls.respond = @ + 1], c, in)
                  IN  IF a.st.panic # "" THEN a.st
                      ELSE IF a.err # ""
                      THEN WriteErrorBody(LogTo(a.st, "ERROR", "Failed to handle API request.", 0),
                                          c, StatusInternalServerError, "Unexpected handler error.")
                      ELSE [a.st EXCEPT !.resp =
                               Write(WriteHeader(SetContentType(@, RespContentType), a.code), a.body)]

createAPIHandler(st, c, r, in) ==
    IF r.method # HTTPMethod
    THEN WriteErrorBody(st, c, StatusMethodNotAllowed, "Expected POST.")
    ELSE IF r.contentType # ReqContentType
    THEN WriteErrorBody(st, c, StatusUnsupportedMediaType, "Expected application/json.")
    ELSE LET st1 == Authorize(st, in.authorized)
         IN  IF ~in.authorized THEN st1
             ELSE LET a == APIRespond([st1 EXCEPT !.calls.respond = @ + 1], c, in)
                  IN  IF a.st.panic # "" THEN a.st
                      ELSE IF a.err # ""
                      THEN IF ~Has(c, Logger) THEN Fault(a.st, "absent Logger")
                           ELSE WriteErrorBody(LogTo(a.st, "ERROR", "Failed to handle API request.", 0),
                                               c, StatusInternalServerError, "Unexpected handler error.")
                      ELSE [a.st EXCEPT !.resp =
                               Write(WriteHeader(IF RespContentType # ""
                                                 THEN SetContentType(@, RespContentType) ELSE @,
                                                 a.code),
                                     a.body)]

APIInputs ==
    {[authorized |-> FALSE, kind |-> "ok", code |-> StatusOK, commitOK |-> TRUE]}
    \cup [authorized : {TRUE}, kind : {"ok", "err", "panic"}, code : APICodes, commitOK : {TRUE}]
    \cup [authorized : {TRUE}, kind : {"commit"}, code : APICodes, commitOK : BOOLEAN]

\* a base handler ran to its end (or panicked): control goes back up
Handled(layer, st) ==
    /\ SetSt(st)
    /\ rest' = Tail(rest)
    /\ trace' = Append(trace, <<IF st.panic = "" THEN "handler" ELSE st.panic, layer>>)
    /\ mode' = IF st.panic = "" THEN "up" ELSE "panic"

APIHandlerServe ==
    /\ Entering("APIHandler")
    /\ \E in \in APIInputs :
          /\ Handled("APIHandler", createAPIHandler(St, ctx, req, in))
          /\ input' = in
    /\ UNCHANGED <<procVars, wrapList, route, req, frames, ctx, cancel, gz, outcome, file>>

\* -------------------------------------------------------- template adapter
TemplateName == "page"
WrapperTemplateName == "wrapper"
RedirectURL == "/login"

RedirectCodes == {StatusMovedPermanently, StatusFound, StatusSeeOther, StatusNotModified,
                  StatusTemporaryRedirect, StatusPermanentRedirect}
ErrorCodes == {StatusBadRequest, StatusNotFound, StatusInternalServerError}
OtherCodes == {201, 999}
TemplateCodes == {0, StatusOK} \cup RedirectCodes \cup ErrorCodes \cup OtherCodes

metaFromCode(code) == [Cookies |-> <<>>, RedirectURL |-> "", ResponseCode |-> code]

\* the application's error-page renderer; each call is recorded with the
\* metadata it got and whether a status line had already been written
ErrorTemplate(st, meta) ==
    [st EXCEPT !.calls.errorTemplate = Append(@, [meta |-> meta, wroteHeader |-> st.resp.wroteHeader]),
               !.resp = Write(WriteHeader(@, meta.ResponseCode), [errorPage |-> meta.ResponseCode])]

Executed(st, name) == [st EXCEPT !.calls.templates = Append(@, name)]

\* what the template engine does with each template: t.inner and t.header
\* say whether the execution succeeds, t.headerExists whether
\* "<name>.header" is defined, t.wrapper is "ok", "fail" (before any output)
\* or "partial" (after some output)
TemplateOutcomes ==
    [inner : {FALSE}, headerExists : {FALSE}, header : {FALSE}, wrapper : {"ok"}]
    \cup [inner : {TRUE}, headerExists : {FALSE}, header : {FALSE}, wrapper : {"ok", "fail", "partial"}]
    \cup [inner : {TRUE}, headerExists : {TRUE}, header : {FALSE}, wrapper : {"ok"}]
    \cup [inner : {TRUE}, headerExists : {TRUE}, header : {TRUE}, wrapper : {"ok", "fail", "partial"}]

\* ExecuteTemplate had it executed "<name>.header" without looking it up first
ExecuteTemplateHeaderRequired(st, c, args, t) ==
    LET st1 == Executed(st, args.Name)
        headerAddName == args.Name \o TemplateHeaderAddExtension
    IN  IF ~t.inner THEN [st |-> st1, err |-> "failed to template data"]
        ELSE IF ~Has(c, ReqUUID) THEN [st |-> Fault(st1, "absent ReqUUID"), err |-> ""]
        ELSE IF ~t.headerExists \/ ~t.header
        THEN [st |-> Executed(st1, headerAddName), err |-> "failed to template HeaderAdd data"]
        ELSE
        LET st2 == Executed(st1, headerAddName)
            result == [ InnerHTML    |-> <<args.Name, args.Data>>,
                        HeaderAdd    |-> <<headerAddName, args.Data>>,
                        RequestUUID  |-> c[ReqUUID],
                        TemplateArgs |-> args ]
            code == IF args.ResponseCode = 0 THEN StatusOK ELSE args.ResponseCode
            st3 == Executed([st2 EXCEPT !.resp = WriteHeader(@, code)], args.WrapperName)
        IN  CASE t.wrapper = "ok" ->
                   [st |-> [st3 EXCEPT !.resp = Write(@, [page |-> args.WrapperName, result |-> result])],
                    err |-> ""]
              [] t.wrapper = "partial" ->
                   [st |-> [st3 EXCEPT !.resp = Write(@, [partial |-> args.WrapperName])],
                    err |-> "failed to template wrapper data"]
              [] OTHER -> [st |-> st3, err |-> "failed to template wrapper data"]

\* ExecuteTemplate: returns the state and the error ("" for nil)
ExecuteTemplate(st, c, args, t) ==
    LET st1 == Executed(st, args.Name)
        headerAddName == args.Name \o TemplateHeaderAddExtension
    IN  IF ~t.inner THEN [st |-> st1, err |-> "failed to template data"]
        ELSE IF ~Has(c, ReqUUID) THEN [st |-> Fault(st1, "absent ReqUUID"), err |-> ""]
        ELSE IF t.headerExists /\ ~t.header
        THEN [st |-> Executed(st1, headerAddName), err |-> "failed to template HeaderAdd data"]
        ELSE
        LET st2 == IF t.headerExists THEN Executed(st1, headerAddName) ELSE st1
            result == [ InnerHTML    |-> <<args.Name, args.Data>>,
                        HeaderAdd    |-> IF t.headerExists THEN <<headerAddName, args.Data>> ELSE <<>>,
                        RequestUUID  |-> c[ReqUUID],
                        TemplateArgs |-> args ]
            code == IF args.ResponseCode = 0 THEN StatusOK ELSE args.ResponseCode
            st3 == Executed([st2 EXCEPT !.resp = WriteHeader(@, code)], args.WrapperName)
        IN  CASE t.wrapper = "ok" ->
                   [st |-> [st3 EXCEPT !.resp = Write(@, [page |-> args.WrapperName, result |-> result])],
                    err |-> ""]
              [] t.wrapper = "partial" ->
                   [st |-> [st3 EXCEPT !.resp = Write(@, [partial |-> args.WrapperName])],
                    err |-> "failed to template wrapper data"]
              [] OTHER -> [st |-> st3, err |-> "failed to template wrapper data"]

\* executeTemplate had it dropped the error ExecuteTemplate returns
executeTemplateDropsError(st, c, args, t) == ExecuteTemplate(st, c, args, t).st

executeTemplate(st, c, args, t) ==
    LET e == ExecuteTemplate(st, c, args, t)
    IN  IF e.st.panic # "" THEN e.st
        ELSE IF e.err # ""
        THEN IF ~Has(c, Logger) THEN Fault(e.st, "absent Logger")
             ELSE ErrorTemplate(LogTo(e.st, "ERROR", "Failed to template JS data.", 0),
                                metaFromCode(StatusInternalServerError))
        ELSE e.st

RECURSIVE SetCookies(_, _, _)
SetCookies(w, cookies, i) ==
    IF i > Len(cookies) THEN w ELSE SetCookies(SetCookie(w, cookies[i]), cookies, i + 1)

\* the switch had it lacked the case for StatusNotModified
CodeBranchNo304(code) ==
    CASE code = 0              -> [do |-> "render", code |-> StatusOK, warn |-> ""]
      [] code = StatusOK       -> [do |-> "render", code |-> code, warn |-> ""]
      [] code \in RedirectCodes \ {StatusNotModified} -> [do |-> "redirect", code |-> code, warn |-> ""]
      [] code \in ErrorCodes   -> [do |-> "error", code |-> code, warn |-> "Failed to handle template request."]
      [] OTHER                 -> [do |-> "render", code |-> code, warn |-> "Unexpected response code."]

\* the switch had it sent StatusInternalServerError to the default case
CodeBranchNo500(code) ==
    CASE code = 0              -> [do |-> "render", code |-> StatusOK, warn |-> ""]
      [] code = StatusOK       -> [do |-> "render", code |-> code, warn |-> ""]
      [] code \in RedirectCodes -> [do |-> "redirect", code |-> code, warn |-> ""]
      [] code \in ErrorCodes \ {StatusInternalServerError} ->
             [do |-> "error", code |-> code, warn |-> "Failed to handle template request."]
      [] OTHER                 -> [do |-> "render", code |-> code, warn |-> "Unexpected response code."]

\* the switch had it left a zero code as it is
CodeBranchKeepsZero(code) ==
    CASE code = 0              -> [do |-> "render", code |-> code, warn |-> ""]
      [] code = StatusOK       -> [do |-> "render", code |-> code, warn |-> ""]
      [] code \in RedirectCodes -> [do |-> "redirect", code |-> code, warn |-> ""]
      [] code \in ErrorCodes   -> [do |-> "error", code |-> code, warn |-> "Failed to handle template request."]
      [] OTHER                 -> [do |-> "render", code |-> code, warn |-> "Unexpected response code."]

\* the switch on meta.ResponseCode: what the adapter does next and the
\* response code it carries on with
CodeBranch(code) ==
    CASE code = 0              -> [do |-> "render", code |-> StatusOK, warn |-> ""]
      [] code = StatusOK       -> [do |-> "render", code |-> code, warn |-> ""]
      [] code \in RedirectCodes -> [do |-> "redirect", code |-> code, warn |-> ""]
      [] code \in ErrorCodes   -> [do |-> "error", code |-> code, warn |-> "Failed to handle template request."]
      [] OTHER                 -> [do |-> "render", code |-> code, warn |-> "Unexpected response code."]

\* createTemplateHandler had it set the cookies after the switch on the code
createTemplateHandlerCookiesLast(st, c, in) ==
    IF ~Has(c, Logger) THEN Fault(st, "absent Logger")
    ELSE
    LET st1 == [st EXCEPT !.calls.authorize = @ + 1]
    IN  IF ~in.authorized
        THEN IF ~in.skipTemplate THEN ErrorTemplate(st1, metaFromCode(StatusUnauthorized)) ELSE st1
        ELSE
        LET st2 == [st1 EXCEPT !.calls.respond = @ + 1]
        IN  IF in.kind = "panic" THEN Fault(st2, "handler panic")
            ELSE
            LET b == CodeBranch(in.meta.ResponseCode)
                meta == [in.meta EXCEPT !.ResponseCode = b.code]
                st4 == IF b.warn = "" THEN st2 ELSE LogTo(st2, "WARN", b.warn, meta.ResponseCode)
                st5 == CASE b.do = "redirect" ->
                              [st4 EXCEPT !.resp = Redirect(@, meta.RedirectURL, meta.ResponseCode),
                                          !.calls.redirect = @ + 1]
                         [] b.do = "error" -> ErrorTemplate(st4, meta)
                         [] OTHER ->
                              executeTemplate(st4, c,
                                              [ Data |-> in.data, Name |-> TemplateName,
                                                ResponseCode |-> meta.ResponseCode,
                                                WrapperName |-> WrapperTemplateName ],
                                              in.tmpl)
            IN  [st5 EXCEPT !.resp = SetCookies(@, in.meta.Cookies, 1)]

\* createTemplateHandler had it rendered the 401 page whatever skipTemplate says
createTemplateHandlerIgnoresSkip(st, c, in) ==
    LET st1 == [st EXCEPT !.calls.authorize = @ + 1]
    IN  IF ~in.authorized THEN ErrorTemplate(st1, metaFromCode(StatusUnauthorized))
        ELSE
        LET st2 == [st1 EXCEPT !.calls.respond = @ + 1]
        IN  IF in.kind = "panic" THEN Fault(st2, "handler panic")
            ELSE
            LET st3 == [st2 EXCEPT !.resp = SetCookies(@, in.meta.Cookies, 1)]
                b == CodeBranch(in.meta.ResponseCode)
                meta == [in.meta EXCEPT !.ResponseCode = b.code]
                st4 == IF b.warn = "" THEN st3 ELSE LogTo(st3, "WARN", b.warn, meta.ResponseCode)
            IN  CASE b.do = "redirect" ->
                       [st4 EXCEPT !.resp = Redirect(@, meta.RedirectURL, meta.ResponseCode),
                                   !.calls.redirect = @ + 1]
                  [] b.do = "error" -> ErrorTemplate(st4, meta)
                  [] OTHER ->
                       executeTemplate(st4, c,
                                       [ Data |-> in.data, Name |-> TemplateName,
                                         ResponseCode |-> meta.ResponseCode,
                                         WrapperName |-> WrapperTemplateName ],
                                       in.tmpl)

\* in: [authorized, skipTemplate, kind, meta, data, tmpl]
createTemplateHandler(st, c, in) ==
    IF ~Has(c, Logger) THEN Fault(st, "absent Logger")
    ELSE
    LET st1 == [st EXCEPT !.calls.authorize = @ + 1]
    IN  IF ~in.authorized
        THEN IF ~in.skipTemplate THEN ErrorTemplate(st1, metaFromCode(StatusUnauthorized)) ELSE st1
        ELSE
        LET st2 == [st1 EXCEPT !.calls.respond = @ + 1]
        IN  IF in.kind = "panic" THEN Fault(st2, "handler panic")
            ELSE
            LET st3 == [st2 EXCEPT !.resp = SetCookies(@, in.meta.Cookies, 1)]
                b == CodeBranch(in.meta.ResponseCode)
                meta == [in.meta EXCEPT !.ResponseCode = b.code]
                st4 == IF b.warn = "" THEN st3 ELSE LogTo(st3, "WARN", b.warn, meta.ResponseCode)
            IN  CASE b.do = "redirect" ->
                       [st4 EXCEPT !.resp = Redirect(@, meta.RedirectURL, meta.ResponseCode),
                                   !.calls.redirect = @ + 1]
                  [] b.do = "error" -> ErrorTemplate(st4, meta)
                  [] OTHER ->
                       executeTemplate(st4, c,
                                       [ Data |-> in.data, Name |-> TemplateName,
                                         ResponseCode |-> meta.ResponseCode,
                                         WrapperName |-> WrapperTemplateName ],
                                       in.tmpl)

NoTemplates == [inner |-> FALSE, headerExists |-> FALSE, header |-> FALSE, wrapper |-> "ok"]

Metas == [ Cookies : SeqsUpTo({"session"}, MaxCookies), RedirectURL : {RedirectURL},
           ResponseCode : TemplateCodes ]

TemplateInputs ==
    [ authorized : {FALSE}, skipTemplate : BOOLEAN, kind : {"ok"},
      meta : {metaFromCode(0)}, data : {"d"}, tmpl : {NoTemplates} ]
    \cup [ authorized : {TRUE}, skipTemplate : {FALSE}, kind : {"panic"},
           meta : {metaFromCode(0)}, data : {"d"}, tmpl : {NoTemplates} ]
    \cup [ authorized : {TRUE}, skipTemplate : {FALSE}, kind : {"ok"},
           meta : {m \in Metas : m.ResponseCode \notin RedirectCodes \cup ErrorCodes},
           data : {"d"}, tmpl : TemplateOutcomes ]
    \cup [ authorized : {TRUE}, skipTemplate : {FALSE}, kind : {"ok"},
           meta : {m \in Metas : m.ResponseCode \in RedirectCodes \cup ErrorCodes},
           data : {"d"}, tmpl : {NoTemplates} ]

TemplateHandlerServe ==
    /\ Entering("TemplateHandler")
    /\ \E in \in TemplateInputs :
          /\ Handled("TemplateHandler", createTemplateHandler(St, ctx, in))
          /\ input' = in
    /\ UNCHANGED <<procVars, wrapList, route, req, frames, ctx, cancel, gz, outcome, file>>

\* ------------------------------------------------ general and base handlers
HandlerInputs == [kind : {"ok", "panic"}]

\* a General handler's ServeHTTP: application code
GeneralHandler(st, in) ==
    IF in.kind = "panic" THEN Fault(st, "handler panic")
    ELSE [st EXCEPT !.resp = Write(@, [general |-> "ok"])]

GeneralHandlerServe ==
    /\ Entering("GeneralHandler")
    /\ \E in \in HandlerInputs :
          /\ Handled("GeneralHandler", GeneralHandler(St, in))
          /\ input' = in
    /\ UNCHANGED <<procVars, wrapList, route, req, frames, ctx, cancel, gz, outcome, file>>

\* the handler given to Wrap directly: application code that writes to the
\* writer it is handed, which is the gzip writer when the compressor wrapped it
BaseHandler(st, in, zipped) ==
    IF in.kind = "panic" THEN Fault(st, "handler panic")
    ELSE [st EXCEPT !.resp = Write(@, [base |-> "ok", gzip |-> zipped])]

BaseServe ==
    /\ Entering("Base")
    /\ \E in \in HandlerInputs :
          /\ Handled("Base", BaseHandler(St, in, gz.state = "open"))
          /\ input' = in
    /\ UNCHANGED <<procVars, wrapList, route, req, frames, ctx, cancel, gz, outcome, file>>

\* ------------------------------------------------------------ static files
CacheDefaults == [MaxAge |-> CacheDefaultMaxAge, NoCache |-> FALSE, NoStore |-> FALSE, Public |-> TRUE]

\* CreateCacheControl: the header value, max-age first, then the directives
CreateCacheControl(options) ==
    LET ms == options.MaxAge
        ma == IF ms > 1000 THEN ms \div 1000 ELSE 0
    IN  [ maxAge |-> ma,
          directives |-> <<"must-revalidate">>
                         \o (IF options.NoCache THEN <<"no-cache">> ELSE <<>>)
                         \o (IF options.NoStore THEN <<"no-store">> ELSE <<>>)
                         \o (IF options.Public THEN <<"public">> ELSE <<"private">>) ]

CacheControlStatic == CreateCacheControl(CacheDefaults)

CacheControlServe ==
    /\ Entering("CacheControl")
    /\ resp' = IF resp.wroteHeader THEN resp ELSE [resp EXCEPT !.cacheControl = CacheControlStatic]
    /\ CallNext("CacheControl", ctx)
    /\ UNCHANGED <<procVars, wrapList, route, req, log, tx, cancel, gz, calls, outcome, input, file>>

EncodeGzipServe ==
    /\ Entering("EncodeGzip")
    /\ IF req.acceptGzip
       THEN /\ resp' = IF resp.wroteHeader THEN resp
                       ELSE [resp EXCEPT !.contentEncoding = ContentEncodingGzip]
            /\ gz' = [gz EXCEPT !.state = "open"]
       ELSE UNCHANGED <<resp, gz>>
    /\ CallNext("EncodeGzip", ctx)
    /\ UNCHANGED <<procVars, wrapList, route, req, log, tx, cancel, calls, outcome, input, file>>

\* the deferred gz.Close()
GzClose(g) == IF g.state = "open" THEN [state |-> "closed", closes |-> g.closes + 1] ELSE g

EncodeGzipReturn ==
    /\ Returning("EncodeGzip")
    /\ gz' = GzClose(gz)
    /\ ReturnFrom("EncodeGzip")
    /\ UNCHANGED <<procVars, wrapList, route, req, rest, ctx, resp, log, tx, cancel, calls, outcome, input, file>>

\* http.FileServer, writing through the gzip writer when one wraps the response
FileServerServe ==
    /\ Entering("FileServer")
    /\ Handled("FileServer",
               [St EXCEPT !.resp = Write(@, [file |-> req.path, gzip |-> gz.state = "open"])])
    /\ UNCHANGED <<procVars, wrapList, route, req, frames, ctx, cancel, gz, outcome, input, file>>

\* ------------------------------------------------------------ index handler
FileExists(path) == path # "/missing"

\* the application's not-found handler
NotFound(st) ==
    [st EXCEPT !.calls.notFound = @ + 1,
               !.resp = Write(WriteHeader(@, StatusNotFound), [notFound |-> TRUE])]

IndexHandlerServe ==
    /\ Entering("IndexHandler")
    /\ LET inner == createIndexTemplateHandler(declared)
       IN  IF req.path # PathIndex
           THEN IF ~FileExists(req.path)
                THEN /\ SetSt(NotFound(St))
                     /\ trace' = Append(trace, <<"short", "IndexHandler">>)
                     /\ mode' = "up"
                     /\ UNCHANGED <<frames, rest, ctx, file>>
                ELSE /\ file' = "open"
                     /\ frames' = Append(frames, [layer |-> "IndexHandler", ctx |-> ctx])
                     /\ rest' = inner.fileServer
                     /\ trace' = Append(trace, <<"pre", "IndexHandler">>)
                     /\ UNCHANGED <<mode, ctx, resp, log, calls, tx>>
           ELSE /\ frames' = Append(frames, [layer |-> "IndexHandler", ctx |-> ctx])
                /\ rest' = inner.h
                /\ trace' = Append(trace, <<"pre", "IndexHandler">>)
                /\ UNCHANGED <<mode, ctx, resp, log, calls, tx, file>>
    /\ UNCHANGED <<procVars, wrapList, route, req, cancel, gz, outcome, input>>

\* the deferred f.Close()
FileClose(f) == IF f = "open" THEN "closed" ELSE f

IndexHandlerReturn ==
    /\ Returning("IndexHandler")
    /\ file' = FileClose(file)
    /\ ReturnFrom("IndexHandler")
    /\ UNCHANGED <<procVars, wrapList, route, req, rest, ctx, resp, log, tx, cancel, gz, calls, outcome, input>>

\* ------------------------------------------------------- panics and the end
\* EncodeGzip had it closed the gzip writer after next.ServeHTTP, not in a defer
PanicUnwindNoDefer ==
    /\ mode = "panic"
    /\ frames # <<>>
    /\ file' = IF Top.layer = "IndexHandler" THEN FileClose(file) ELSE file
    /\ frames' = Pop
    /\ trace' = Append(trace, <<"unwound", Top.layer>>)
    /\ UNCHANGED <<procVars, mode, wrapList, route, req, rest, ctx, resp, log, tx, cancel, gz, calls,
                   outcome, input>>

\* a panic leaves a middleware's ServeHTTP: only deferred calls run
PanicUnwind ==
    /\ mode = "panic"
    /\ frames # <<>>
    /\ gz' = IF Top.layer = "EncodeGzip" THEN GzClose(gz) ELSE gz
    /\ file' = IF Top.layer = "IndexHandler" THEN FileClose(file) ELSE file
    /\ frames' = Pop
    /\ trace' = Append(trace, <<"unwound", Top.layer>>)
    /\ UNCHANGED <<procVars, mode, wrapList, route, req, rest, ctx, resp, log, tx, cancel, calls, outcome, input>>

\* the outermost ServeHTTP has returned, or net/http has recovered the panic
Finish ==
    /\ mode \in {"up", "panic"}
    /\ frames = <<>>
    /\ mode' = "done"
    /\ outcome' = IF mode = "up" THEN "returned" ELSE "fault"
    /\ UNCHANGED <<procVars, wrapList, route, req, rest, frames, ctx, resp, trace, log, tx, cancel, gz,
                   calls, input, file>>

Next ==
    \/ Attach
    \/ Request
    \/ ServeWrapped
    \/ LimitReqSizeServe
    \/ AddCtxServe
    \/ AddCtxReturn
    \/ RequestUUIDServe
    \/ AddLoggerServe
    \/ PlainReturn
    \/ ProbeServe
    \/ ProbeReturn
    \/ AddTxServe
    \/ AddTxReturn
    \/ APIHandlerServe
    \/ TemplateHandlerServe
    \/ GeneralHandlerServe
    \/ BaseServe
    \/ CacheControlServe
    \/ EncodeGzipServe
    \/ EncodeGzipReturn
    \/ FileServerServe
    \/ IndexHandlerServe
    \/ IndexHandlerReturn
    \/ PanicUnwind
    \/ Finish

Spec == Init /\ [][Next]_vars

TypeOK ==
    /\ phase \in {"start", "serving", "attachFailed"}
    /\ mode \in {"idle", "down", "up", "panic", "done"}
    /\ outcome \in {"none", "returned", "fault"}
    /\ tx.state \in {"none", "open", "beginFailed"} \cup TxClosedStates

\* ================================================================ properties
RECURSIVE Reverse(_)
Reverse(q) == IF q = <<>> THEN <<>> ELSE Append(Reverse(Tail(q)), Head(q))

Pres(list) == [i \in 1..Len(list) |-> <<"pre", list[i]>>]
Posts(list) == [i \in 1..Len(list) |-> <<"post", list[i]>>]

InTrace(e) == \E i \in DOMAIN trace : trace[i] = e
PosInTrace(e) == IndexOf(trace, e)
InFrames(layer) == \E i \in DOMAIN frames : frames[i].layer = layer

GlobalLayers == {"AddLogger", "RequestUUID", "AddCtx", "LimitReqSize"}
Adapters == {"APIHandler", "TemplateHandler", "GeneralHandler", "IndexHandler", "FileServer"}
Attached == route \in {"api", "template", "index", "general"}

WrappedAndReturned == mode = "done" /\ route = "wrap" /\ outcome = "returned"

\* C1 as stated: a handler built by Wrap(h, m1..mn) runs m1's pre-processing
\* first, then m2 .. mn, then h, and unwinds mn first, m1 last.
C1_FirstOutermost ==
    WrappedAndReturned =>
        trace = Pres(wrapList) \o <<<<"handler", "Base">>>> \o Posts(Reverse(wrapList))

\* C1 amended: a handler built by Wrap(h, m1..mn) has the LAST middleware of
\* the list outermost: mn's pre-processing runs first, then mn-1 .. m1, then
\* h, and the post-processing unwinds m1 first, mn last.
C1_LastOutermost ==
    WrappedAndReturned =>
        trace = Pres(Reverse(wrapList)) \o <<<<"handler", "Base">>>> \o Posts(wrapList)

C1_Witness ==
    /\ WrappedAndReturned
    /\ Len(wrapList) = 3
    /\ wrapList[1] # wrapList[2] /\ wrapList[2] # wrapList[3] /\ wrapList[1] # wrapList[3]

StartsInOrder(order) ==
    Attached => \A i \in 1..Len(order) : i <= Len(trace) => trace[i] = <<"pre", order[i]>>

\* C2 as stated: on every request through the global bundle the four
\* middleware start in the order logger-attacher, correlation-id-injector,
\* timeout-wrapper, size-limiter.
C2_LoggerFirst == StartsInOrder(<<"AddLogger", "RequestUUID", "AddCtx", "LimitReqSize">>)

\* C2 amended: the global bundle nests, outermost to innermost, size-limiter,
\* timeout-wrapper, correlation-id-injector, logger-attacher; on every
\* request they start in exactly that order, before anything they wrap.
C2_LimiterFirst == StartsInOrder(<<"LimitReqSize", "AddCtx", "RequestUUID", "AddLogger">>)

C2_Witness == Attached /\ mode = "done" /\ Len(trace) > 4 /\ InTrace(<<"handler", "GeneralHandler">>)

\* C3: on a request through the global bundle the correlation identifier is
\* in the context when the logger attacher reads it, and no later reader
\* (transaction attacher, adapters, WriteErrorBody) finds the key absent.
C3_ReqUUIDPresent ==
    Attached =>
        /\ ~ \E i \in DOMAIN trace : trace[i][1] = "absent ReqUUID"
        /\ \A i \in DOMAIN frames :
              frames[i].layer \in {"AddLogger", "AddTx", "IndexHandler"} => Has(frames[i].ctx, ReqUUID)
        /\ (rest # <<>> /\ Head(rest) \in {"AddLogger", "AddTx"} \cup Adapters /\ mode = "down")
              => Has(ctx, ReqUUID)

C3_Witness ==
    /\ route = "api" /\ mode = "done"
    /\ resp.status = StatusMethodNotAllowed
    /\ InTrace(<<"post", "AddLogger">>)
    /\ resp.body[1].metadata.requestMetadata \in UUIDs

DeclaredStarted(i) == trace[i][1] = "pre" /\ trace[i][2] \in Declarable
GlobalStarted(i) == trace[i][1] = "pre" /\ trace[i][2] \in GlobalLayers
AdapterRan(i) == trace[i][2] \in {"APIHandler", "TemplateHandler", "GeneralHandler"}

BeginSucceeded == tx.state \in {"open"} \cup TxClosedStates

LoggedError(msg) == \E i \in DOMAIN log : log[i].level = "ERROR" /\ log[i].msg = msg
LoggedWarn(msg, code) ==
    \E i \in DOMAIN log : log[i].level = "WARN" /\ log[i].msg = msg /\ log[i].respCode = code

\* C5: when the transaction attacher's begin fails, nothing downstream is
\* invoked, no transaction handle is stored in the context, no rollback is
\* attempted and a 500 JSON error body is written.
C5_BeginFailure ==
    tx.state = "beginFailed" =>
        /\ ~Has(ctx, Tx) /\ \A i \in DOMAIN frames : ~Has(frames[i].ctx, Tx)
        /\ tx.rollbacks = 0 /\ tx.commits = 0
        /\ rest # <<>> /\ calls.authorize = 0 /\ calls.respond = 0 /\ calls.templates = <<>>
        /\ \A i \in DOMAIN trace :
              i > PosInTrace(<<"short", "AddTx">>) => trace[i][1] \in {"post"}
        /\ ~InTrace(<<"pre", "AddTx">>)
        /\ resp.wroteHeader /\ resp.status = 500 /\ resp.contentType = "application/json"
        /\ Len(resp.body) = 1
        /\ resp.body[1].data = [code |-> 500, message |-> "Internal server error."]
        /\ LoggedError("Failed to begin transaction.")

C5_Witness == tx.state = "beginFailed" /\ mode = "done" /\ outcome = "returned" /\ route = "api"

C6_State ==
    /\ InFrames("AddTx") =>
          /\ BeginSucceeded /\ tx.rollbacks = 0
          /\ Has(ctx, Tx)
          /\ \A i \in DOMAIN frames : frames[i].layer = "AddTx" => Has(frames[i].ctx, Tx)
    /\ InTrace(<<"post", "AddTx">>) =>
          /\ tx.rollbacks = 1 /\ TxClosed(tx)
          /\ (tx.commits > 0) => (tx.state \in {"committed", "commitFailed"})
          /\ (route = "api" /\ input.kind = "commit" /\ input.commitOK /\ tx.commits = 1)
                => tx.state = "committed"
          /\ LoggedError("Failed to rollback transaction.") <=> tx.state = "rollbackFailed"

\* C6: when begin succeeds the handle is in the context before anything
\* downstream runs, and rollback is attempted exactly once after downstream
\* has returned; after a commit by the handler the "already closed" rollback
\* error is not logged and the transaction stays committed, any other
\* rollback error is logged, and the rollback step never touches the response.
C6_RollbackAfterNext ==
    /\ []C6_State
    /\ [][Returning("AddTx") => (resp' = resp /\ tx'.rollbacks = tx.rollbacks + 1)]_vars

C6_Witness ==
    /\ route = "api" /\ mode = "done"
    /\ InTrace(<<"post", "AddTx">>)
    /\ input.kind = "commit" /\ tx.state = "committed" /\ tx.rollbacks = 1

\* C7: whenever begin succeeded, the transaction is committed or rolled back
\* by the time its request has finished, however the handler ended.
C7_TxTerminated == (mode = "done" /\ BeginSucceeded) => TxClosed(tx)

TemplateResponded ==
    /\ InTrace(<<"handler", "TemplateHandler">>)
    /\ input.authorized /\ input.kind = "ok"

WrapperExecuted == \E i \in DOMAIN calls.templates : calls.templates[i] = "wrapper"

\* C8: when the template handler's response code is 301, 302, 303, 304, 307
\* or 308 the adapter redirects to the given target with that code and
\* stops: no template is executed and the error page is not rendered.
C8_Redirect ==
    (TemplateResponded /\ input.meta.ResponseCode \in {301, 302, 303, 304, 307, 308}) =>
        /\ calls.redirect = 1
        /\ resp.wroteHeader /\ resp.status = input.meta.ResponseCode
        /\ resp.location = input.meta.RedirectURL
        /\ calls.templates = <<>> /\ calls.errorTemplate = <<>>
        /\ resp.body = <<>>

C8_Witness ==
    /\ TemplateResponded /\ mode = "done"
    /\ input.meta.ResponseCode = 304 /\ resp.status = 304 /\ resp.location = "/login"

\* C9: when the template handler's response code is 400, 404 or 500 a
\* warning is logged, the error-page renderer is invoked exactly once with
\* the handler's metadata, and no template is executed.
C9_ErrorPage ==
    (TemplateResponded /\ input.meta.ResponseCode \in {400, 404, 500}) =>
        /\ LoggedWarn("Failed to handle template request.", input.meta.ResponseCode)
        /\ Len(calls.errorTemplate) = 1
        /\ calls.errorTemplate[1].meta = input.meta
        /\ calls.templates = <<>> /\ calls.redirect = 0

C9_Witness ==
    /\ TemplateResponded /\ mode = "done"
    /\ input.meta.ResponseCode = 500 /\ Len(calls.errorTemplate) = 1
    /\ input.meta.Cookies # <<>>

\* the response the adapter would give had Respond returned code instead
RespFor(code) ==
    createTemplateHandler([resp |-> NewResp, log |-> <<>>, calls |-> NewCalls, tx |-> tx, panic |-> ""],
                          ctx, [input EXCEPT !.meta.ResponseCode = code]).resp

\* C10: the normal render is performed exactly for the codes outside
\* {301,302,303,304,307,308} and {400,404,500}; 0 and 200 are rendered with
\* status 200 and the same output; any other code is rendered too, with an
\* unexpected-code warning and that code as the status.
C10_NormalRender ==
    TemplateResponded =>
        LET code == input.meta.ResponseCode
            special == {301, 302, 303, 304, 307, 308} \cup {400, 404, 500}
        IN  /\ (calls.templates # <<>>) <=> (code \notin special)
            /\ (code \notin special) => calls.templates[1] = "page"
            /\ (code \in {0, 200}) =>
                  /\ \A i \in DOMAIN log : log[i].level # "WARN"
                  /\ WrapperExecuted => resp.status = 200
                  /\ resp = RespFor(0) /\ resp = RespFor(200)
            /\ (code \notin special \cup {0, 200}) =>
                  /\ LoggedWarn("Unexpected response code.", code)
                  /\ WrapperExecuted => resp.status = code
            /\ (code \notin special /\ input.tmpl.inner /\ input.tmpl.wrapper = "ok"
                                    /\ (input.tmpl.headerExists => input.tmpl.header)) =>
                  /\ calls.errorTemplate = <<>>
                  /\ Len(resp.body) = 1
                  /\ resp.body[1].result.TemplateArgs.ResponseCode = resp.status

C10_Witness ==
    /\ TemplateResponded /\ mode = "done"
    /\ input.meta.ResponseCode = 0 /\ resp.status = 200
    /\ WrapperExecuted /\ calls.errorTemplate = <<>>

TemplateEnded == \E i \in DOMAIN trace : trace[i][2] = "TemplateHandler"
APIEnded == \E i \in DOMAIN trace : trace[i][2] = "APIHandler"

SpecialCodes == {301, 302, 303, 304, 307, 308} \cup {400, 404, 500}

RenderFails(t) == ~t.inner \/ (t.headerExists /\ ~t.header) \/ t.wrapper # "ok"

ErrorsLogged(msg) == Cardinality({i \in DOMAIN log : log[i].level = "ERROR" /\ log[i].msg = msg})

\* C11: a failure of the inner template, of the header fragment or of the
\* wrapper template is logged and handed to the error-page renderer exactly
\* once, with code 500, and the adapter returns normally.
C11_RenderFailure ==
    (TemplateEnded /\ input.authorized /\ input.kind = "ok"
       /\ input.meta.ResponseCode \notin SpecialCodes /\ RenderFails(input.tmpl)) =>
        /\ InTrace(<<"handler", "TemplateHandler">>)
        /\ ErrorsLogged("Failed to template JS data.") = 1
        /\ Len(calls.errorTemplate) = 1
        /\ calls.errorTemplate[1].meta.ResponseCode = 500
        /\ mode # "panic" /\ outcome # "fault"

C11_Witness ==
    /\ TemplateEnded /\ mode = "done" /\ outcome = "returned"
    /\ input.authorized /\ input.kind = "ok" /\ input.meta.ResponseCode = 200
    /\ input.tmpl.headerExists /\ ~input.tmpl.header
    /\ Len(calls.errorTemplate) = 1 /\ calls.templates = <<"page", "page.header">>

\* C12: the API adapter checks in a fixed order and the first failing check
\* decides: wrong method gives 405 without Authorize or Respond; else wrong
\* content type gives 415 without Authorize or Respond; else a refusing
\* Authorize leaves only what Authorize wrote, without Respond; else an error
\* from Respond gives the generic 500; else the returned status and body are
\* written with the declared response content type.
C12_APICheckOrder ==
    APIEnded =>
        LET badMethod == req.method # "POST"
            badType == req.contentType # "application/json"
        IN  /\ badMethod =>
                  /\ resp.status = 405 /\ resp.body[1].data.code = 405
                  /\ calls.authorize = 0 /\ calls.respond = 0
            /\ (~badMethod /\ badType) =>
                  /\ resp.status = 415 /\ resp.body[1].data.code = 415
                  /\ calls.authorize = 0 /\ calls.respond = 0
            /\ (~badMethod /\ ~badType) => calls.authorize = 1
            /\ (~badMethod /\ ~badType /\ ~input.authorized) =>
                  /\ calls.respond = 0
                  /\ resp.body = <<[authorize |-> "refused"]>> /\ resp.contentType = ""
            /\ (~badMethod /\ ~badType /\ input.authorized) => calls.respond = 1
            /\ (~badMethod /\ ~badType /\ input.authorized /\ input.kind = "err") =>
                  /\ resp.status = 500 /\ Len(resp.body) = 1
                  /\ resp.body[1].data = [code |-> 500, message |-> "Unexpected handler error."]
                  /\ LoggedError("Failed to handle API request.")
            /\ (~badMethod /\ ~badType /\ input.authorized /\ input.kind = "ok") =>
                  /\ resp.status = input.code /\ resp.contentType = "application/json"
                  /\ resp.body = <<[payload |-> input.code]>>

C12_Witness ==
    /\ APIEnded /\ mode = "done"
    /\ req.method = "GET" /\ req.contentType = "text/plain"
    /\ resp.status = 405

\* C13: when the template handler's Authorize refuses, Respond is not
\* invoked, no cookie is set and no template is executed; the error page for
\* 401 is rendered if and only if Authorize did not ask to skip the template.
C13_Unauthorized ==
    (TemplateEnded /\ ~input.authorized) =>
        /\ calls.authorize = 1 /\ calls.respond = 0
        /\ resp.cookies = <<>> /\ calls.templates = <<>> /\ calls.redirect = 0
        /\ input.skipTemplate => calls.errorTemplate = <<>>
        /\ ~input.skipTemplate =>
              /\ Len(calls.errorTemplate) = 1
              /\ calls.errorTemplate[1].meta = metaFromCode(401)

C13_Witness ==
    /\ TemplateEnded /\ mode = "done"
    /\ ~input.authorized /\ input.skipTemplate /\ calls.errorTemplate = <<>>

\* ======================================================= Cache-Control
MaxAgeSeconds == 2      \* the ages tried run up to this many seconds

\* MaxAge in milliseconds: quarter-second steps, both sides of one second,
\* and the default of 30 minutes
Ages == {250 * k : k \in 0..(4 * MaxAgeSeconds)} \cup {999, 1001, CacheDefaultMaxAge}

CacheControlOptions == [MaxAge : Ages, NoCache : BOOLEAN, NoStore : BOOLEAN, Public : BOOLEAN]

InitCache ==
    /\ HandlingInit
    /\ srv = NoServe
    /\ ext = NoExtract
    /\ cache \in [state : {"new"}, opts : CacheControlOptions, value : {NoCacheControl}]

\* CreateCacheControl(options): the header value is computed once
BuildCacheControl ==
    /\ cache.state = "new"
    /\ cache' = [cache EXCEPT !.state = "built", !.value = CreateCacheControl(cache.opts)]
    /\ UNCHANGED <<phase, mux, declared, opts, srv, ext, reqVars>>

\* the middleware it returns sets the header on a response
ServeCacheControl ==
    /\ cache.state \in {"built", "served"}
    /\ ~resp.wroteHeader
    /\ resp.cacheControl # cache.value
    /\ resp' = [resp EXCEPT !.cacheControl = cache.value]
    /\ cache' = [cache EXCEPT !.state = "served"]
    /\ UNCHANGED <<phase, mux, declared, opts, srv, ext, mode, wrapList, route, req, rest, frames, ctx,
                   trace, log, tx, cancel, gz, calls, outcome, input, file>>

NextCache == BuildCacheControl \/ ServeCacheControl

SpecCache == InitCache /\ [][NextCache]_vars

ExpectedDirectives(o) ==
    <<"must-revalidate">>
    \o (IF o.NoCache THEN <<"no-cache">> ELSE <<>>)
    \o (IF o.NoStore THEN <<"no-store">> ELSE <<>>)
    \o (IF o.Public THEN <<"public">> ELSE <<"private">>)

\* C14: the Cache-Control value is max-age=S, must-revalidate, then no-cache
\* if NoCache, no-store if NoStore, then public or private, where S is MaxAge
\* in whole seconds rounded down (0 only under one second; one second gives
\* 1, 30 minutes 1800, 500 ms 0), and the response carries that value.
C14_CacheControlValue ==
    /\ cache.state \in {"built", "served"} =>
          /\ cache.value.maxAge = cache.opts.MaxAge \div 1000
          /\ (cache.value.maxAge = 0) <=> (cache.opts.MaxAge < 1000)
          /\ cache.value.directives = ExpectedDirectives(cache.opts)
    /\ cache.state = "served" => resp.cacheControl = cache.value

\* ================================================== response compressor
GzipEntered == InTrace(<<"pre", "EncodeGzip">>)
GzipLeft == InTrace(<<"post", "EncodeGzip">>) \/ InTrace(<<"unwound", "EncodeGzip">>)

C16_CtxReleased ==
    /\ InTrace(<<"pre", "AddCtx">>) => (cancel.state # "none" /\ cancel.timeout = opts.ReqTimeout)
    /\ (mode = "done" /\ cancel.state # "none") => cancel.state = "released"

\* ================================================================ Serve
\* Serve runs on the calling goroutine and serverShutdown on a second one.
\*   srv.main : start -> listening -> select -> returned
\*   srv.shut : wait -> hook -> hooked -> draining -> drained -> closed
\* srv.ctx is the shutdown context (none, live, expired), srv.timer the
\* time.After of Serve's select, srv.active the connections in a handler.
MaxConns == 2

MsgFailListen == "Failed to listen and serve."
MsgContextOver == "Context over."
MsgFailShutdownFunc == "Failed to run provided shutdown function."
MsgFailShutdown == "Couldn't shut down HTTP server before time ended."
MsgFailIdle == "Failed to close idle connections before timeout."

InitServe ==
    /\ HandlingInit
    /\ cache = NoCache
    /\ ext = NoExtract
    /\ srv = [NoServe EXCEPT !.main = "start", !.shut = "wait"]

ServeStep(s) ==
    /\ srv' = s
    /\ UNCHANGED <<phase, mux, declared, opts, cache, ext, reqVars>>

ServeLog(s, msg) == [s EXCEPT !.log = Append(@, msg)]

\* time.After(args.ShutdownTimeout) starts when Serve reaches its select;
\* ctxFirst remembers whether the shutdown context was already running
StartTimer(s) == [s EXCEPT !.timer = "running", !.ctxFirst = (s.ctx # "none")]

\* srv.ListenAndServe binds the port and accepts
ListenOK ==
    /\ srv.main = "start"
    /\ srv.shutdownCalls = 0
    /\ ServeStep([srv EXCEPT !.main = "listening"])

\* srv.ListenAndServe fails with an error other than ErrServerClosed
ListenFail ==
    /\ srv.main = "start"
    /\ srv.shutdownCalls = 0
    /\ ServeStep(StartTimer(ServeLog([srv EXCEPT !.main = "select"], MsgFailListen)))

\* once Shutdown was called, ListenAndServe returns ErrServerClosed
ListenReturns ==
    /\ srv.main \in {"start", "listening"}
    /\ srv.shutdownCalls > 0
    /\ ServeStep(StartTimer([srv EXCEPT !.main = "select"]))

\* a connection enters a handler
Accept ==
    /\ srv.main = "listening"
    /\ srv.shutdownCalls = 0
    /\ srv.active < MaxConns
    /\ ServeStep([srv EXCEPT !.active = @ + 1])

\* a connection becomes idle
ConnDone ==
    /\ srv.active > 0
    /\ ServeStep([srv EXCEPT !.active = @ - 1])

\* SIGINT or SIGTERM is delivered to the process
Signal ==
    /\ ~srv.signalled
    /\ ServeStep([srv EXCEPT !.signalled = TRUE])

\* serverShutdown wakes from <-ctx.Done(), derives the shutdown context and
\* calls args.ShutdownFunc with it
ShutdownStart ==
    /\ srv.shut = "wait"
    /\ srv.signalled
    /\ ServeStep(ServeLog([srv EXCEPT !.shut = "hook", !.ctx = "live", !.hookCalls = @ + 1],
                          MsgContextOver))

\* the shutdown timeout elapses; a timer started earlier with the same
\* duration has fired by then
CtxExpire ==
    /\ srv.ctx = "live"
    /\ (srv.timer = "running") => srv.ctxFirst
    /\ ServeStep([srv EXCEPT !.ctx = "expired"])

\* serverShutdown had it returned when the hook fails
HookReturnStopsOnError ==
    /\ srv.shut = "hook"
    /\ \E err \in BOOLEAN :
          LET s == [srv EXCEPT !.shut = IF err THEN "stopped" ELSE "hooked", !.hookErr = err,
                               !.hookReturns = @ + 1, !.overran = (srv.ctx = "expired")]
          IN  ServeStep(IF err THEN ServeLog(s, MsgFailShutdownFunc) ELSE s)

\* args.ShutdownFunc returns, whenever it chooses to; its error is logged
HookReturn ==
    /\ srv.shut = "hook"
    /\ \E err \in BOOLEAN :
          LET s == [srv EXCEPT !.shut = "hooked", !.hookErr = err,
                               !.hookReturns = @ + 1, !.overran = (srv.ctx = "expired")]
          IN  ServeStep(IF err THEN ServeLog(s, MsgFailShutdownFunc) ELSE s)

\* srv.Shutdown(shutdownCtx) is called: the listeners close
CallShutdown ==
    /\ srv.shut = "hooked"
    /\ ServeStep([srv EXCEPT !.shut = "draining", !.shutdownCalls = @ + 1])

\* srv.Shutdown returns: nil once no connection is active, else the
\* context's error once the context is done
DrainReturn ==
    /\ srv.shut = "draining"
    /\ \/ /\ srv.active = 0
          /\ ServeStep([srv EXCEPT !.shut = "drained"])
       \/ /\ srv.active > 0
          /\ srv.ctx = "expired"
          /\ ServeStep(ServeLog([srv EXCEPT !.shut = "drained"], MsgFailShutdown))

\* close(idleConnsClosed)
CloseDone ==
    /\ srv.shut = "drained"
    /\ ServeStep([srv EXCEPT !.shut = "closed", !.chanClosed = TRUE])

\* the time.After channel becomes ready; a shutdown context started earlier
\* with the same duration has expired by then
TimerFire ==
    /\ srv.timer = "running"
    /\ srv.ctxFirst => srv.ctx = "expired"
    /\ ServeStep([srv EXCEPT !.timer = "fired"])

\* select: case <-time.After(args.ShutdownTimeout)
SelectTimeout ==
    /\ srv.main = "select"
    /\ srv.timer = "fired"
    /\ ServeStep(ServeLog([srv EXCEPT !.main = "returned"], MsgFailIdle))

\* select: case <-idleConnsClosed
SelectClosed ==
    /\ srv.main = "select"
    /\ srv.chanClosed
    /\ ServeStep([srv EXCEPT !.main = "returned"])

NextServe ==
    \/ ListenOK
    \/ ListenFail
    \/ ListenReturns
    \/ Accept
    \/ ConnDone
    \/ Signal
    \/ ShutdownStart
    \/ CtxExpire
    \/ HookReturn
    \/ CallShutdown
    \/ DrainReturn
    \/ CloseDone
    \/ TimerFire
    \/ SelectTimeout
    \/ SelectClosed

SpecServe == InitServe /\ [][NextServe]_vars

ServeLogged(msg) == \E i \in DOMAIN srv.log : srv.log[i] = msg

\* C17: the shutdown hook is invoked only after a termination signal and
\* exactly once; it has returned before the listener is told to stop and
\* drain; a hook error is logged and does not keep the drain from being
\* started; the completion channel is closed only after the drain returned.
C17_ShutdownOrder ==
    /\ srv.hookCalls <= 1 /\ srv.shutdownCalls <= 1
    /\ srv.hookCalls > 0 => srv.signalled
    /\ (srv.shut # "wait") <=> (srv.hookCalls = 1)
    /\ srv.shutdownCalls > 0 => (srv.hookReturns = 1 /\ srv.shut \in {"draining", "drained", "closed"})
    /\ (srv.hookReturns > 0 /\ srv.hookErr) => ServeLogged(MsgFailShutdownFunc)
    /\ (srv.hookReturns > 0 /\ srv.shutdownCalls = 0) => ENABLED CallShutdown
    /\ srv.chanClosed <=> srv.shut = "closed"
    /\ srv.shut \in {"drained", "closed"} => srv.shutdownCalls = 1

C17_Witness ==
    /\ srv.chanClosed
    /\ srv.hookErr
    /\ srv.hookCalls = 1 /\ srv.shutdownCalls = 1

\* C18: with a shutdown hook that runs longer than the shutdown timeout,
\* Serve still returns after the signal and logs a timeout warning, and it is
\* never left waiting on the hook or on the drain once the timeout is over.
C18_TimeoutWarning ==
    /\ (srv.main = "returned" /\ srv.overran) =>
          (ServeLogged(MsgFailIdle) \/ ServeLogged(MsgFailShutdown))
    /\ (srv.signalled /\ srv.ctx = "expired" /\ srv.main \in {"listening", "select"}) =>
          ENABLED (ListenReturns \/ SelectTimeout \/ SelectClosed)

\* ======================================================= JSON error body
\* the body chunks that carry an API error
ErrorBodies == {i \in DOMAIN resp.body : "data" \in DOMAIN resp.body[i]}

\* an error body whose metadata holds the correlation identifier under key k
ErrorBodyShape(b, k) ==
    /\ DOMAIN b = {"data", "metadata"}
    /\ DOMAIN b.data = {"code", "message"}
    /\ b.data.code = resp.status
    /\ DOMAIN b.metadata = {k}
    /\ Has(ctx, ReqUUID) /\ b.metadata[k] = ctx[ReqUUID]

\* C19: every JSON error body written for an API-kind failure (the adapter's
\* 405, 415 and 500 and the transaction attacher's 500) is
\* {data: {code, message}, metadata: {requestUUID}}, with code the status
\* written and requestUUID the request's correlation identifier.
C19_ErrorBodyShape ==
    \A i \in ErrorBodies : ErrorBodyShape(resp.body[i], "requestUUID")

\* ================================================= JSON-body extractors
\* A request body as the extractors see it: its length, whether the transport
\* fails while it is read, and what its bytes are (an empty body is not JSON).
MaxBodyLen == 2

Bodies ==
    {b \in [len : 0..MaxBodyLen, readErr : BOOLEAN, content : {"valid", "invalid", "malformed"}] :
        b.len = 0 => b.content = "malformed"}

\* the limit http.MaxBytesReader was given by CreateLimitReqSize; -1: no limiter
BodyLimits == {-1, 0, 1}

\* the request contexts a handler may be called with
ExtractContexts ==
    LET l == [method |-> "POST", reqUUID |-> "u1", url |-> PatternAPI]
    IN  { EmptyCtx, WithValue(EmptyCtx, ReqUUID, "u1"), WithValue(EmptyCtx, Logger, l),
          WithValue(WithValue(EmptyCtx, ReqUUID, "u1"), Logger, l) }

\* a context.Context interface value; a named result that is never assigned
\* holds the nil interface
NilContext == [nil |-> TRUE, val |-> EmptyCtx]
ContextOf(c) == [nil |-> FALSE, val |-> c]

\* io.ReadAll(r.Body) succeeds
ReadAll(b, limit) == ~b.readErr /\ (limit < 0 \/ b.len <= limit)

ExtractResult(code, body, err, panic) == [code |-> code, body |-> body, err |-> err, panic |-> panic]

\* api.ErrorResponse with its marshalling error discarded by the caller
ErrorResponse(ci, code, message, err) ==
    IF ci.nil THEN ExtractResult(0, <<>>, "", "nil context")
    ELSE IF ~Has(ci.val, ReqUUID) THEN ExtractResult(0, <<>>, "", "absent ReqUUID")
    ELSE ExtractResult(code, apiNewAPIError(ci.val, code, message), err, "")

\* httphandle.APIErrorResponse, likewise
APIErrorResponse(ci, code, message, err) ==
    IF ci.nil THEN ExtractResult(0, <<>>, "", "nil context")
    ELSE IF ~Has(ci.val, ReqUUID) THEN ExtractResult(0, <<>>, "", "absent ReqUUID")
    ELSE ExtractResult(code, NewAPIError(ci.val, code, message), err, "")

\* api.ExtractJSON: ctx = r.Context() is its first statement
ExtractJSON(c, b, limit) ==
    LET ci == ContextOf(c)
    IN  IF ~Has(c, Logger) THEN ExtractResult(0, <<>>, "", "absent Logger")
        ELSE IF ~ReadAll(b, limit)
        THEN ErrorResponse(ci, StatusBadRequest, "Failed to read request body.", "read")
        ELSE IF b.content = "malformed"
        THEN ErrorResponse(ci, StatusUnsupportedMediaType, "Failed to JSON parse request body.", "parse")
        ELSE IF b.content = "invalid"
        THEN ErrorResponse(ci, StatusUnprocessableEntity, "Failed to validate request body.", "validate")
        ELSE ExtractResult(StatusOK, <<>>, "", "")

\* httphandle.APIJSONBody: its named result ctx is never assigned
APIJSONBody(c, b, limit) ==
    LET ci == NilContext
    IN  IF ~ReadAll(b, limit)
        THEN APIErrorResponse(ci, StatusBadRequest, "Failed to read request body.", "read")
        ELSE IF b.content = "malformed"
        THEN APIErrorResponse(ci, StatusUnsupportedMediaType, "Failed to JSON parse request body.", "parse")
        ELSE IF b.content = "invalid"
        THEN APIErrorResponse(ci, StatusUnprocessableEntity, "Failed to validate request body.", "validate")
        ELSE ExtractResult(StatusOK, <<>>, "", "")

Extractors == {"ExtractJSON", "APIJSONBody"}

InitExtract ==
    /\ HandlingInit
    /\ cache = NoCache
    /\ srv = NoServe
    /\ \E f \in Extractors, c \in ExtractContexts, b \in Bodies, n \in BodyLimits :
          ext = [state |-> "called", fn |-> f, ctx |-> c, body |-> b, limit |-> n,
                 result |-> ExtractResult(0, <<>>, "", "")]

\* the extractor runs to its return or to its panic
ExtractReturn ==
    /\ ext.state = "called"
    /\ ext' = [ext EXCEPT !.state = "returned",
                          !.result = IF ext.fn = "ExtractJSON"
                                     THEN ExtractJSON(ext.ctx, ext.body, ext.limit)
                                     ELSE APIJSONBody(ext.ctx, ext.body, ext.limit)]
    /\ UNCHANGED <<phase, mux, declared, opts, cache, srv, reqVars>>

NextExtract == ExtractReturn

SpecExtract == InitExtract /\ [][NextExtract]_vars

\* the code the claim gives for a body: 400 unreadable (oversized included),
\* 415 not JSON, 422 invalid, 200 otherwise
ExpectedCode(b, limit) ==
    IF b.readErr \/ (limit >= 0 /\ b.len > limit) THEN StatusBadRequest
    ELSE IF b.content = "malformed" THEN StatusUnsupportedMediaType
    ELSE IF b.content = "invalid" THEN StatusUnprocessableEntity
    ELSE StatusOK

\* C20: behind the global bundle (logger and correlation identifier in the
\* context), each extractor, api.ExtractJSON and httphandle.APIJSONBody,
\* answers an unreadable or oversized body with 400, an unparsable one with
\* 415 and an invalid one with 422, each with a structured error body and a
\* non-nil error, and never faults; on success it returns 200, a nil body and
\* a nil error.
C20_Extractors ==
    (ext.state = "returned" /\ Has(ext.ctx, Logger) /\ Has(ext.ctx, ReqUUID)) =>
        LET r == ext.result
            code == ExpectedCode(ext.body, ext.limit)
        IN  /\ r.panic = ""
            /\ r.code = code
            /\ IF code = StatusOK
               THEN r.body = <<>> /\ r.err = ""
               ELSE /\ r.err # ""
                    /\ DOMAIN r.body = {"data", "metadata"}
                    /\ r.body.data.code = code

\* ====================================================== context values
\* a step keeps every key the request context holds, with its value, and
\* adds at most one key
KeysKept ==
    /\ \A k \in DOMAIN ctx : k \in DOMAIN ctx' /\ ctx'[k] = ctx[k]
    /\ Cardinality(DOMAIN ctx') <= Cardinality(DOMAIN ctx) + 1

\* every middleware still running was given values the innermost layer sees
FramesAgree ==
    \A i \in DOMAIN frames :
        \A k \in DOMAIN frames[i].ctx : Has(ctx, k) /\ ctx[k] = frames[i].ctx[k]

\* the logger carries the correlation identifier stored in the context
LoggerAgrees == (Has(ctx, Logger) /\ Has(ctx, ReqUUID)) => ctx[Logger].reqUUID = ctx[ReqUUID]

\* C21: within a request through the global bundle (and the transaction
\* attacher), each context key, correlation identifier, logger, transaction,
\* is set at most once and never changes afterwards: every later middleware
\* and the handler see the value first stored.
C21_ContextStable ==
    /\ [](Attached => (FramesAgree /\ LoggerAgrees))
    /\ [][Attached => KeysKept]_vars

C21_Witness ==
    /\ Attached /\ mode = "done" /\ outcome = "returned"
    /\ DOMAIN ctx = {Logger, ReqUUID, Tx}
    /\ InTrace(<<"handler", "APIHandler">>)

\* ============================================================== cookies
\* C22: in the template adapter, whenever Respond has run, all cookies of its
\* response metadata are set on the response before the branch on the
\* response code, in every branch (render, redirect, error page), and so
\* before any status line or body is written.
C22_CookiesFirst ==
    TemplateResponded =>
        /\ resp.cookies = input.meta.Cookies
        /\ resp.wroteHeader

C22_Witness ==
    /\ TemplateResponded
    /\ input.meta.ResponseCode \in RedirectCodes
    /\ Len(input.meta.Cookies) = MaxCookies
    /\ resp.cookies = input.meta.Cookies
    /\ resp.location = RedirectURL

\* ====================================================== header fragment
\* the normal render was entered: Respond ran and the code is none of the
\* redirect or error-page codes
NormalRender == TemplateResponded /\ input.meta.ResponseCode \notin SpecialCodes

\* the pages the wrapper template wrote, each with the result it was given
Pages == {i \in DOMAIN resp.body : "page" \in DOMAIN resp.body[i]}

HeaderName == TemplateName \o TemplateHeaderAddExtension

\* C23: in the normal render "<inner-name>.header" is optional: with the
\* inner template present and the companion absent the render succeeds with
\* an empty header fragment; with both present both rendered fragments are
\* in the result given to the wrapper data, with the correlation identifier
\* and the original arguments, before the wrapper template renders.
C23_HeaderOptional ==
    NormalRender =>
        /\ (input.tmpl.inner /\ ~input.tmpl.headerExists /\ input.tmpl.wrapper = "ok") =>
              /\ calls.errorTemplate = <<>>
              /\ calls.templates = <<TemplateName, WrapperTemplateName>>
              /\ Pages # {}
        /\ (input.tmpl.inner /\ input.tmpl.headerExists /\ input.tmpl.header
                /\ input.tmpl.wrapper = "ok") =>
              /\ calls.errorTemplate = <<>>
              /\ calls.templates = <<TemplateName, HeaderName, WrapperTemplateName>>
              /\ Pages # {}
        /\ \A i \in Pages :
              LET r == resp.body[i].result
              IN  /\ r.InnerHTML = <<TemplateName, input.data>>
                  /\ r.HeaderAdd = IF input.tmpl.headerExists
                                   THEN <<HeaderName, input.data>> ELSE <<>>
                  /\ r.RequestUUID = ctx[ReqUUID]
                  /\ r.TemplateArgs.Name = TemplateName
                  /\ r.TemplateArgs.Data = input.data
                  /\ r.TemplateArgs.WrapperName = WrapperTemplateName

C23_Witness ==
    /\ NormalRender
    /\ input.tmpl.inner /\ ~input.tmpl.headerExists
    /\ \E i \in Pages : resp.body[i].result.HeaderAdd = <<>>

\* ========================================================= root pattern
IndexActed == \E i \in DOMAIN trace : trace[i][2] = "IndexHandler"

\* C24: for the template handler registered at "/", only a request for the
\* literal root path reaches the template adapter; for any other path
\* Authorize and Respond are never invoked and the request is served as a
\* static file inside the cache-control and compression middleware, or by
\* the application's not-found handler when the file cannot be opened.
C24_RootOnly ==
    (route = "index" /\ req.path # PathIndex) =>
        /\ calls.authorize = 0 /\ calls.respond = 0 /\ ~TemplateEnded
        /\ (IndexActed /\ ~FileExists(req.path)) =>
              /\ calls.notFound = 1
              /\ resp.status = StatusNotFound
              /\ ~InTrace(<<"handler", "FileServer">>)
              /\ ~InTrace(<<"pre", "CacheControl">>)
        /\ (IndexActed /\ FileExists(req.path)) => calls.notFound = 0
        /\ InTrace(<<"handler", "FileServer">>) =>
              /\ FileExists(req.path)
              /\ PosInTrace(<<"pre", "IndexHandler">>) < PosInTrace(<<"pre", "CacheControl">>)
              /\ PosInTrace(<<"pre", "CacheControl">>) < PosInTrace(<<"pre", "EncodeGzip">>)
              /\ PosInTrace(<<"pre", "EncodeGzip">>) < PosInTrace(<<"handler", "FileServer">>)
              /\ InTrace(<<"pre", "CacheControl">>) /\ InTrace(<<"pre", "EncodeGzip">>)
              /\ resp.cacheControl = CacheControlStatic
              /\ resp.body = <<[file |-> req.path, gzip |-> req.acceptGzip]>>
        /\ (mode = "done" /\ FileExists(req.path)) => InTrace(<<"handler", "FileServer">>)

C24_Witness ==
    /\ route = "index" /\ req.path # PathIndex /\ mode = "done"
    /\ InTrace(<<"handler", "FileServer">>)
    /\ declared # <<>>

\* ==================================================== declared middleware
\* C25: for every handler kind registered by Attach, API, General, Template
\* at the root pattern and Template at any other pattern, every request that
\* reaches the adapter has first passed through the handler's declared
\* middleware.
C25_DeclaredOnPath ==
    Attached =>
        \A i \in DOMAIN trace :
            AdapterRan(i) =>
                \A k \in DOMAIN declared :
                    \E j \in 1..(i - 1) : trace[j] = <<"pre", declared[k]>>

\* ========================================================== status header
\* C26: in a templated response, whenever the application's error-page
\* renderer is invoked for a render failure, the rendering pipeline has not
\* yet written a status header for the request.
C26_ErrorPageBeforeHeader ==
    \A i \in DOMAIN calls.errorTemplate : ~calls.errorTemplate[i].wroteHeader

\* ======================================================= global options
\* C27: when Attach is called with MiddlewareOpts left at its zero value,
\* the global bundle on every registered handler uses the defaults, a
\* maximum request size of 10,485,760 bytes and a timeout of 10 seconds,
\* not a limit of 0 bytes and a timeout of 0.
C27_ZeroOptionsDefault ==
    (Attached /\ opts = ZeroOptions) =>
        /\ InTrace(<<"pre", "LimitReqSize">>) => req.bodyLimit = DefaultMaxReqSize
        /\ cancel.state # "none" => cancel.timeout = DefaultTimeout

====
